---- MODULE Spec2Model ----
(***************************************************************************)
(* Model of generate_x24_qr_with-title.py: font resolution at import time, *)
(* the main loop that draws unique random codes and hands each to          *)
(* create_qr_with_title, and the canvas layout computed by the composer.   *)
(* Strings are sequences of one-character strings.                         *)
(***************************************************************************)
EXTENDS Integers, Sequences, FiniteSets, Bags, TLC

VARIABLES pc, FONT, font_attempts, makedirs_called, NUM_CODES, STRING_LENGTH, dir_exists, dir_files,
          initial_files, generated_strings, rejected, calls,
          writes, error_log, stdout_created, warned, summary, exit_status,
          final_img

vars == <<pc, FONT, font_attempts, makedirs_called, NUM_CODES, STRING_LENGTH, dir_exists, dir_files,
          initial_files, generated_strings, rejected, calls,
          writes, error_log, stdout_created, warned, summary, exit_status,
          final_img>>

main_vars == <<pc, FONT, font_attempts, makedirs_called, NUM_CODES, STRING_LENGTH, dir_exists, dir_files,
          initial_files, generated_strings, rejected, calls,
          writes, error_log, stdout_created, warned, summary, exit_status>>

\* ---------------------------------------------------------------- bounds
AlphabetSample == 2
MaxStringLength == 1
MaxNumCodes == 3
MaxVersion == 2
MaxBearing == 2
MaxTextDelta == 1

\* --------------------------------------------------------- configuration
OUTPUT_DIR == "qr_codes_with_titles"
IMAGE_FORMAT == <<"P", "N", "G">>
QR_BOX_SIZE == 10
QR_BORDER == 4
PADDING == 20
TEXT_PADDING_TOP == 10
FONT_SIZE == 25

\* ------------------------------------------------------------ characters
ascii_uppercase ==
  <<"A","B","C","D","E","F","G","H","I","J","K","L","M",
    "N","O","P","Q","R","S","T","U","V","W","X","Y","Z">>
ascii_lowercase ==
  <<"a","b","c","d","e","f","g","h","i","j","k","l","m",
    "n","o","p","q","r","s","t","u","v","w","x","y","z">>
digits == <<"0","1","2","3","4","5","6","7","8","9">>
characters == ascii_uppercase \o digits

Range(s) == {s[i] : i \in DOMAIN s}

\* The characters random.choice may return in the model: a sample of
\* `characters` that mixes letters and digits ("A", "0", "Q", ...).
Choices == {characters[1 + (((i - 1) * 26) % Len(characters))] : i \in 1..AlphabetSample}

\* All values generate_random_string(length) can return.
generate_random_string(length) == [1..length -> Choices]

isalpha(c) == c \in Range(ascii_uppercase) \cup Range(ascii_lowercase)
isalnum(c) == isalpha(c) \/ c \in Range(digits)

lower_char(c) ==
  IF c \in Range(ascii_uppercase)
  THEN ascii_lowercase[CHOOSE i \in DOMAIN ascii_uppercase : ascii_uppercase[i] = c]
  ELSE c
lower(s) == [i \in 1..Len(s) |-> lower_char(s[i])]

safe_filenameAlphaOnly(s) == [i \in 1..Len(s) |-> IF isalpha(s[i]) THEN s[i] ELSE "_"]
safe_filename(s) == [i \in 1..Len(s) |-> IF isalnum(s[i]) THEN s[i] ELSE "_"]

\* os.path.join(OUTPUT_DIR, f"{safe_filename}.{IMAGE_FORMAT.lower()}")
output_path(s) == <<OUTPUT_DIR, safe_filename(s) \o <<".">> \o lower(IMAGE_FORMAT)>>

\* ------------------------------------------------------- loop conditions
LoopConditionInclusive(n, N) == n <= N
LoopCondition(n, N) == n < N

NotInAlways(s, set) == TRUE
NotIn(s, set) == s \notin set

SafetyLimit(n, N) == n > N * 2 /\ n < N

\* `except Exception` catches every failure raised inside the composer.
Stages == {"render", "save"}
CaughtIOErrorOnly(stage) == stage = "save"
Caught(stage) == stage \in Stages

\* exit() on the no-font path ends the process; exit() passes no status.
NoFontTargetContinue == "main"
NoFontTarget == "aborted"
ExitCall == 0

CodeSpace == Cardinality(generate_random_string(STRING_LENGTH))

\* ------------------------------------------------------------------ Init
\* The file a previous run may have left in the output directory.
StaleFiles == {output_path([i \in 1..STRING_LENGTH |-> characters[1]])}

Init ==
  /\ pc = "font"
  /\ FONT = "none"
  /\ font_attempts = <<>>
  /\ makedirs_called = FALSE
  /\ NUM_CODES \in 0..MaxNumCodes
  /\ STRING_LENGTH \in 1..MaxStringLength
  /\ dir_exists \in BOOLEAN
  /\ initial_files \in {{}, StaleFiles}
  /\ (initial_files # {} => dir_exists)
  /\ dir_files = initial_files
  /\ generated_strings = {}
  /\ rejected = FALSE
  /\ calls = EmptyBag
  /\ writes = EmptyBag
  /\ error_log = {}
  /\ stdout_created = {}
  /\ warned = FALSE
  /\ summary = -1
  /\ exit_status = -1
  /\ final_img = [kind |-> "none"]

\* ------------------------------------------------------- font resolution
\* ImageFont.truetype("arial.ttf", FONT_SIZE) succeeds.
LoadPreferredFont ==
  /\ pc = "font"
  /\ font_attempts' = Append(font_attempts, "arial.ttf")
  /\ FONT' = "arial.ttf"
  /\ pc' = "main"
  /\ UNCHANGED <<makedirs_called, NUM_CODES, STRING_LENGTH, dir_exists, dir_files, initial_files,
                 generated_strings, rejected, calls, writes,
                 error_log, stdout_created, warned, summary, exit_status, final_img>>

\* ImageFont.truetype raises IOError: the warning is printed and the
\* fallback is tried.
PreferredFontMissing ==
  /\ pc = "font"
  /\ font_attempts' = Append(font_attempts, "arial.ttf")
  /\ pc' = "font_fallback"
  /\ UNCHANGED <<makedirs_called, FONT, NUM_CODES, STRING_LENGTH, dir_exists, dir_files, initial_files,
                 generated_strings, rejected, calls, writes,
                 error_log, stdout_created, warned, summary, exit_status, final_img>>

\* ImageFont.load_default() succeeds.
LoadDefaultFont ==
  /\ pc = "font_fallback"
  /\ font_attempts' = Append(font_attempts, "default")
  /\ FONT' = "default"
  /\ pc' = "main"
  /\ UNCHANGED <<makedirs_called, NUM_CODES, STRING_LENGTH, dir_exists, dir_files, initial_files,
                 generated_strings, rejected, calls, writes,
                 error_log, stdout_created, warned, summary, exit_status, final_img>>

\* ImageFont.load_default() raises: logging.error, print, exit().
NoFontExit ==
  /\ pc = "font_fallback"
  /\ font_attempts' = Append(font_attempts, "default")
  /\ error_log' = error_log \cup {[data |-> <<>>, error |-> "font"]}
  /\ pc' = NoFontTarget
  /\ exit_status' = IF NoFontTarget = "aborted" THEN ExitCall ELSE exit_status
  /\ UNCHANGED <<makedirs_called, FONT, NUM_CODES, STRING_LENGTH, dir_exists, dir_files, initial_files,
                 generated_strings, rejected, calls, writes,
                 stdout_created, warned, summary, final_img>>

\* ------------------------------------------------------------- main body
\* os.makedirs(OUTPUT_DIR, exist_ok=True); generated_strings = set()
MakeDirs ==
  /\ pc = "main"
  /\ makedirs_called' = TRUE
  /\ dir_exists' = TRUE
  /\ generated_strings' = {}
  /\ pc' = "while"
  /\ UNCHANGED <<font_attempts, FONT, NUM_CODES, STRING_LENGTH, dir_files, initial_files,
                 rejected, calls, writes, error_log,
                 stdout_created, warned, summary, exit_status, final_img>>

\* create_qr_with_title(data_string, filename): the image is rendered
\* (encoded and composed) and saved, or one of the two stages raises; a
\* caught failure is logged with the code.
create_qr_with_title(data_string, filename, outcome) ==
  /\ calls' = calls (+) SetToBag({[data_string |-> data_string, filename |-> filename]})
  /\ IF outcome = "ok"
     THEN /\ dir_files' = dir_files \cup {filename}
          /\ writes' = writes (+) SetToBag({filename})
          /\ stdout_created' = stdout_created \cup {filename}
          /\ UNCHANGED error_log
     ELSE IF Caught(outcome)
     THEN /\ error_log' = error_log \cup {[data |-> data_string, error |-> outcome]}
          /\ UNCHANGED <<dir_files, writes, stdout_created>>
     ELSE UNCHANGED <<dir_files, writes, stdout_created, error_log>>

\* The failure leaves create_qr_with_title as an exception.
Raises(outcome) == outcome # "ok" /\ ~Caught(outcome)

\* One pass of the loop body: the while test holds, random_str is drawn
\* and either added and handed to the composer or rejected as duplicate;
\* then the safety break is evaluated (it prints the warning, leaves the
\* loop and the summary line follows).
LoopBody(random_str, outcome) ==
  /\ pc = "while"
  /\ LoopCondition(Cardinality(generated_strings), NUM_CODES)
  /\ IF NotIn(random_str, generated_strings)
     THEN /\ generated_strings' = generated_strings \cup {random_str}
          /\ create_qr_with_title(random_str, output_path(random_str), outcome)
          /\ UNCHANGED rejected
     ELSE /\ rejected' = TRUE
          /\ UNCHANGED <<generated_strings, calls, dir_files, writes,
                         stdout_created, error_log>>
  /\ IF NotIn(random_str, generated_strings) /\ Raises(outcome)
     THEN /\ pc' = "crashed"
          /\ exit_status' = 1
          /\ UNCHANGED <<warned, summary>>
     ELSE IF SafetyLimit(Cardinality(generated_strings'), NUM_CODES)
     THEN /\ warned' = TRUE
          /\ summary' = Cardinality(generated_strings')
          /\ exit_status' = 0
          /\ pc' = "done"
     ELSE /\ pc' = "while"
          /\ UNCHANGED <<warned, summary, exit_status>>
  /\ UNCHANGED <<font_attempts, makedirs_called, FONT, NUM_CODES, STRING_LENGTH,
                 dir_exists, initial_files, final_img>>

Outcomes == {"ok"} \cup Stages

DrawString ==
  \E random_str \in generate_random_string(STRING_LENGTH), outcome \in Outcomes :
    LoopBody(random_str, outcome)

DrawNew ==
  \E random_str \in generate_random_string(STRING_LENGTH) \ generated_strings,
     outcome \in Outcomes :
    LoopBody(random_str, outcome)

\* The while test fails: print(f"Finished generating
\* {len(generated_strings)} QR codes."), then the interpreter exits.
LoopExit ==
  /\ pc = "while"
  /\ ~LoopCondition(Cardinality(generated_strings), NUM_CODES)
  /\ summary' = Cardinality(generated_strings)
  /\ exit_status' = 0
  /\ pc' = "done"
  /\ UNCHANGED <<font_attempts, makedirs_called, FONT, NUM_CODES, STRING_LENGTH,
                 dir_exists, dir_files, initial_files, generated_strings, rejected,
                 calls, writes, error_log, stdout_created, warned, final_img>>

Next ==
  \/ LoadPreferredFont
  \/ PreferredFontMissing
  \/ LoadDefaultFont
  \/ NoFontExit
  \/ MakeDirs
  \/ DrawString
  \/ LoopExit

Spec == Init /\ [][Next]_vars

\* Every step that is not a draw is taken once it is possible; random
\* sampling eventually returns a string that has not been generated yet.
FairSpec ==
  /\ Spec
  /\ WF_vars(LoadPreferredFont \/ PreferredFontMissing \/ LoadDefaultFont \/ NoFontExit)
  /\ WF_vars(MakeDirs)
  /\ WF_vars(LoopExit)
  /\ WF_vars(DrawNew)

\* --------------------------------------------------------- canvas layout
\* qr_img.size for a symbol of the given version: (4v + 17) modules plus
\* the border on both sides, QR_BOX_SIZE pixels per module.
QrPixels(version) == (4 * version + 17 + 2 * QR_BORDER) * QR_BOX_SIZE

max(a, b) == IF a > b THEN a ELSE b

total_width(qr_width, text_width) == max(qr_width, text_width) + 2 * PADDING

total_heightOnePadding(qr_height, text_height) == qr_height + TEXT_PADDING_TOP + text_height + PADDING
total_height(qr_height, text_height) == qr_height + TEXT_PADDING_TOP + text_height + 2 * PADDING

\* Lines 62-92 of create_qr_with_title: measure, size the canvas, paste
\* the QR image, draw the text.  text_bbox is what textbbox((0, 0), ...)
\* returns, i.e. where the ink lies relative to the drawing origin.
Layout(measured_by, qr_width, qr_height, text_bbox, text_width, text_height) ==
  LET tw == total_width(qr_width, text_width)
      th == total_height(qr_height, text_height)
      qr_x == (tw - qr_width) \div 2
      qr_y == PADDING
      text_x == (tw - text_width) \div 2
      text_y == qr_y + qr_height + TEXT_PADDING_TOP
  IN [kind |-> "image", measured_by |-> measured_by,
      qr_width |-> qr_width, qr_height |-> qr_height,
      text_bbox |-> text_bbox,
      text_width |-> text_width, text_height |-> text_height,
      total_width |-> tw, total_height |-> th,
      qr_x |-> qr_x, qr_y |-> qr_y, text_x |-> text_x, text_y |-> text_y]

TextWidths == {QrPixels(1) + d : d \in (0 - MaxTextDelta)..MaxTextDelta}
TextHeights == {FONT_SIZE - d : d \in 0..MaxTextDelta}

\* The composer on a Pillow that has textbbox.
ComposeWithTextbbox ==
  \E version \in 1..MaxVersion, l \in 0..MaxBearing, t \in 0..MaxBearing,
     w \in TextWidths, h \in TextHeights :
    LET text_bbox == <<l, t, l + w, t + h>>
        text_width == text_bbox[3] - text_bbox[1]
        text_height == text_bbox[4] - text_bbox[2]
    IN /\ final_img' = Layout("textbbox", QrPixels(version), QrPixels(version), text_bbox,
                              text_width, text_height)
       /\ UNCHANGED main_vars

\* The composer on an older Pillow: textbbox raises AttributeError and
\* textsize gives the size directly.
ComposeWithTextsize ==
  \E version \in 1..MaxVersion, w \in TextWidths, h \in TextHeights :
    /\ final_img' = Layout("textsize", QrPixels(version), QrPixels(version), <<0, 0, w, h>>, w, h)
    /\ UNCHANGED main_vars

\* The state before the first call of the composer.
InitLayout ==
  /\ pc = "while"
  /\ FONT = "arial.ttf"
  /\ font_attempts = <<"arial.ttf">>
  /\ makedirs_called = TRUE
  /\ NUM_CODES = 1
  /\ STRING_LENGTH = 1
  /\ dir_exists = TRUE
  /\ initial_files = {}
  /\ dir_files = {}
  /\ generated_strings = {}
  /\ rejected = FALSE
  /\ calls = EmptyBag
  /\ writes = EmptyBag
  /\ error_log = {}
  /\ stdout_created = {}
  /\ warned = FALSE
  /\ summary = -1
  /\ exit_status = -1
  /\ final_img = [kind |-> "none"]

NextLayout == ComposeWithTextbbox \/ ComposeWithTextsize

SpecLayout == InitLayout /\ [][NextLayout]_vars

\* ================================================================ claims
Alphanumeric == Range(ascii_uppercase) \cup Range(digits)
Png == <<".", "p", "n", "g">>
Called == BagToSet(calls)
DataErrors == {e \in error_log : e.error # "font"}
LoopEntered == pc \in {"while", "done"}
Abs(x) == IF x < 0 THEN 0 - x ELSE x

\* C1: once the loop has finished with NUM_CODES <= CodeSpace, exactly
\* NUM_CODES distinct codes were generated, each of length STRING_LENGTH
\* over A-Z and 0-9; and no code is ever handed to the composer twice.
C1_UniqueCodes ==
  /\ (pc = "done" /\ NUM_CODES <= CodeSpace) =>
       /\ Cardinality(generated_strings) = NUM_CODES
       /\ \A s \in generated_strings :
            /\ Len(s) = STRING_LENGTH
            /\ \A i \in 1..Len(s) : s[i] \in Alphanumeric
  /\ \A r1, r2 \in Called : r1.data_string = r2.data_string => r1 = r2
  /\ \A r \in Called : CopiesIn(r, calls) = 1

C1_Witness ==
  /\ pc = "done"
  /\ NUM_CODES >= 2
  /\ rejected
  /\ Cardinality(generated_strings) = NUM_CODES

\* C2: a failure in the composer is logged with its code, leaves no file
\* for that code, never reaches the main loop, and every generated code is
\* still handed to the composer.
C2_FailureIsolated ==
  /\ pc # "crashed"
  /\ \A r \in Called :
       \/ /\ CopiesIn(r.filename, writes) = 1
          /\ \A e \in error_log : e.data # r.data_string
       \/ /\ \E e \in DataErrors : e.data = r.data_string
          /\ CopiesIn(r.filename, writes) = 0
          /\ r.filename \notin stdout_created
          /\ r.filename \notin dir_files \ initial_files
  /\ \A s \in generated_strings : \E r \in Called : r.data_string = s
  /\ pc = "done" => BagCardinality(calls) = NUM_CODES

C2_Witness ==
  /\ pc = "done"
  /\ NUM_CODES = 2
  /\ BagCardinality(calls) = 2
  /\ \E e \in error_log : e.error = "save"
  /\ BagCardinality(writes) = 1

\* C3: when some code failed to be written, the count in the final summary
\* is the number of images written, which is below NUM_CODES.
C3_SummaryCountsWritten ==
  (pc = "done" /\ DataErrors # {}) =>
     /\ summary = BagCardinality(writes)
     /\ summary < NUM_CODES

\* C4: when no new code can be drawn any more and the count is still below
\* NUM_CODES, the next pass of the loop prints the warning, leaves the loop
\* and the final count is below NUM_CODES.
Stalled ==
  /\ generated_strings = generate_random_string(STRING_LENGTH)
  /\ Cardinality(generated_strings) < NUM_CODES

C4_SafetyLimitFires ==
  [][(pc = "while" /\ Stalled) => (warned' /\ pc' = "done" /\ summary' < NUM_CODES)]_vars

\* C5: with NUM_CODES <= CodeSpace and fair sampling, the main loop, once
\* entered, ends and the final summary is printed, whatever items fail.
C5_Terminates ==
  (pc = "while" /\ NUM_CODES <= CodeSpace) ~> (pc = "done" /\ summary >= 0)

C5_Witness ==
  /\ pc = "done"
  /\ summary >= 0
  /\ NUM_CODES = CodeSpace
  /\ rejected
  /\ DataErrors # {}

\* C6: the preferred font is tried first, the fallback only after it, and
\* nothing else happens before a font is loaded; without any font the
\* program aborts with no code generated, no directory created, no file
\* written.
C6_FontFirst ==
  /\ font_attempts \in {<<>>, <<"arial.ttf">>, <<"arial.ttf", "default">>}
  /\ FONT = "arial.ttf" => font_attempts = <<"arial.ttf">>
  /\ FONT = "default" => font_attempts = <<"arial.ttf", "default">>
  /\ (pc = "main" \/ LoopEntered \/ makedirs_called \/ generated_strings # {}
        \/ calls # EmptyBag \/ writes # EmptyBag) => FONT # "none"
  /\ (FONT = "none" /\ Len(font_attempts) = 2) => pc = "aborted"
  /\ pc = "aborted" =>
       /\ FONT = "none"
       /\ generated_strings = {}
       /\ ~makedirs_called
       /\ calls = EmptyBag
       /\ writes = EmptyBag
       /\ dir_files = initial_files

C6_Witness ==
  /\ pc = "aborted"
  /\ font_attempts = <<"arial.ttf", "default">>
  /\ ~dir_exists

\* C7: the exit status is non-zero exactly when no font could be loaded;
\* every other run exits 0 after the summary.
C7_ExitStatus ==
  /\ pc \in {"aborted", "done", "crashed"} => ((exit_status # 0) <=> (FONT = "none"))
  /\ pc = "done" => (exit_status = 0 /\ summary >= 0)

\* C8: the composer is called exactly once per generated code with path
\* OUTPUT_DIR/<code>.png, distinct codes get distinct paths, no file is
\* written twice, a run without failures from an empty directory leaves
\* exactly the files <code>.png, and the directory exists before any write.
C8_OneFilePerCode ==
  /\ \A r \in Called :
       /\ CopiesIn(r, calls) = 1
       /\ r.data_string \in generated_strings
       /\ r.filename = <<OUTPUT_DIR, r.data_string \o Png>>
  /\ \A r1, r2 \in Called : r1.data_string # r2.data_string => r1.filename # r2.filename
  /\ \A s \in generated_strings : \E r \in Called : r.data_string = s
  /\ \A f \in BagToSet(writes) : CopiesIn(f, writes) = 1
  /\ (pc = "done" /\ DataErrors = {} /\ initial_files = {}) =>
       /\ dir_files = {<<OUTPUT_DIR, s \o Png>> : s \in generated_strings}
       /\ Cardinality(dir_files) = NUM_CODES
  /\ (calls # EmptyBag \/ writes # EmptyBag) => (makedirs_called /\ dir_exists)

C8_Witness ==
  /\ pc = "done"
  /\ DataErrors = {}
  /\ initial_files = {}
  /\ NUM_CODES >= 2
  /\ rejected
  /\ Cardinality(dir_files) = NUM_CODES
  /\ \E s \in generated_strings : \E i \in 1..Len(s) : s[i] \in Range(digits)

\* C9: the canvas is max(qr_w, text_w) + 2*PADDING wide and
\* qr_h + TEXT_PADDING_TOP + text_h + 2*PADDING high, and two compositions
\* with the same QR size and text size have the same dimensions.
CanvasSizeOk(img) ==
  /\ img.total_width =
       (IF img.qr_width >= img.text_width THEN img.qr_width ELSE img.text_width) + 2 * PADDING
  /\ img.total_width >= img.qr_width + 2 * PADDING
  /\ img.total_width >= img.text_width + 2 * PADDING
  /\ img.total_height = img.qr_height + TEXT_PADDING_TOP + img.text_height + 2 * PADDING

SameInputs(a, b) ==
  /\ a.qr_width = b.qr_width
  /\ a.qr_height = b.qr_height
  /\ a.text_width = b.text_width
  /\ a.text_height = b.text_height

C9_CanvasSize ==
  [][final_img'.kind = "image" =>
       /\ CanvasSizeOk(final_img')
       /\ (final_img.kind = "image" /\ SameInputs(final_img, final_img')) =>
            /\ final_img'.total_width = final_img.total_width
            /\ final_img'.total_height = final_img.total_height]_vars

C9_Witness ==
  /\ final_img.kind = "image"
  /\ final_img.text_width > final_img.qr_width
  /\ final_img.text_bbox[1] > 0
  /\ final_img.total_width = final_img.text_width + 2 * PADDING

\* C10: the QR image has top margin PADDING and is centred; the drawn text
\* is centred, starts TEXT_PADDING_TOP below the QR image, and both keep
\* at least PADDING pixels to every edge of the canvas.
C10_CentredWithPadding ==
  final_img.kind = "image" =>
    LET img == final_img
        ink_left == img.text_x + img.text_bbox[1]
        ink_top == img.text_y + img.text_bbox[2]
        ink_right == img.text_x + img.text_bbox[3]
        ink_bottom == img.text_y + img.text_bbox[4]
        qr_right == img.qr_x + img.qr_width
        qr_bottom == img.qr_y + img.qr_height
    IN /\ img.qr_y = PADDING
       /\ Abs(img.qr_x - (img.total_width - qr_right)) <= 1
       /\ Abs(ink_left - (img.total_width - ink_right)) <= 1
       /\ ink_top = qr_bottom + TEXT_PADDING_TOP
       /\ ink_top >= qr_bottom
       /\ img.qr_x >= PADDING
       /\ img.total_width - qr_right >= PADDING
       /\ ink_left >= PADDING
       /\ img.total_width - ink_right >= PADDING
       /\ img.total_height - ink_bottom >= PADDING
====
